---------------------------- MODULE Spec2Model ----------------------------
(***************************************************************************)
(* A model of read_makefile.py: the recursive include resolver             *)
(* parse_include_files and the heuristic analyzer analyze_makefile.        *)
(*                                                                         *)
(* Texts (file contents, paths, the corpus) are strings; a character is a  *)
(* string of length one, read with At.  The regular expressions of the     *)
(* source are kept as syntax trees and matched by a backtracking matcher   *)
(* that tries the alternatives in the order Python's re module tries them, *)
(* so that the first match found is the match Python reports.              *)
(***************************************************************************)
EXTENDS Integers, Sequences, FiniteSets, TLC

(***************************************************************************)
(* Characters and strings                                                  *)
(***************************************************************************)
At(s, i) == SubSeq(s, i, i)

CharsOf(s) == {At(s, i) : i \in 1..Len(s)}

Lowercase == "abcdefghijklmnopqrstuvwxyz"

Uppercase == "ABCDEFGHIJKLMNOPQRSTUVWXYZ"

Digits == "0123456789"

\* \s of Python's re, cut to the white space the modelled files hold
Space == {" ", "\t", "\n"}

\* [A-Za-z0-9_], which is also \w on the ASCII texts of the model
Word == CharsOf(Lowercase) \cup CharsOf(Uppercase) \cup CharsOf(Digits) \cup {"_"}

\* str.lower(), one character
LowerOf == [c \in CharsOf(Uppercase) |->
              At(Lowercase, CHOOSE i \in 1..Len(Uppercase) : At(Uppercase, i) = c)]

LowerChar(c) == IF c \in DOMAIN LowerOf THEN LowerOf[c] ELSE c

\* str.startswith
startswith(s, p) == Len(p) <= Len(s) /\ SubSeq(s, 1, Len(p)) = p

\* the substring test "p in s"
Contains(s, p) == \E i \in 1..(Len(s) - Len(p) + 1) : SubSeq(s, i, i + Len(p) - 1) = p

\* str.strip() on the white space of the model
RECURSIVE lstrip(_)
lstrip(s) == IF Len(s) > 0 /\ At(s, 1) \in Space THEN lstrip(SubSeq(s, 2, Len(s))) ELSE s

RECURSIVE rstrip(_)
rstrip(s) == IF Len(s) > 0 /\ At(s, Len(s)) \in Space THEN rstrip(SubSeq(s, 1, Len(s) - 1)) ELSE s

strip(s) == rstrip(lstrip(s))

(***************************************************************************)
(* Regular expressions: syntax                                             *)
(***************************************************************************)
\* [...]: a character of the set
In(S) == [t |-> "cls", neg |-> FALSE, s |-> S]

\* [^...]: a character outside the set
NotIn(S) == [t |-> "cls", neg |-> TRUE, s |-> S]

\* . : any character but a line break
Dot == NotIn({"\n"})

\* a literal string
Lit(str) == [t |-> "lit", str |-> str]

Cat(rs) == [t |-> "cat", rs |-> rs]

\* r1|r2|..., tried left to right
Alt(rs) == [t |-> "alt", rs |-> rs]

\* c*, c+, c+? for a character class c: greedy takes the most first, lazy the least
Star(c) == [t |-> "rep", c |-> c, min |-> 0, greedy |-> TRUE]

Plus(c) == [t |-> "rep", c |-> c, min |-> 1, greedy |-> TRUE]

LazyPlus(c) == [t |-> "rep", c |-> c, min |-> 1, greedy |-> FALSE]

\* (r)* for an expression r, greedy
StarOf(r) == [t |-> "star", r |-> r]

\* r?, greedy
Opt(r) == Alt(<<r, Cat(<<>>)>>)

\* (r): capturing group n
Group(n, r) == [t |-> "grp", n |-> n, r |-> r]

\* ^ and $ under re.MULTILINE, $ without it, (?<!c)
Bol == [t |-> "bol"]

Eol == [t |-> "eol"]

EndOfText == [t |-> "eot"]

NotAfter(c) == [t |-> "nlb", c |-> c]

(***************************************************************************)
(* Regular expressions: matching                                           *)
(***************************************************************************)
NoGroups == [n \in 1..2 |-> [s |-> 0, e |-> 0, ts |-> 0]]

NoMatch == [ok |-> FALSE, s |-> 0, e |-> 0, g |-> NoGroups]

\* whether the character at position i of text is in class c
Accepts(c, text, i) == i <= Len(text) /\ ((At(text, i) \in c.s) # c.neg)

\* the length of the longest run of characters of class c from position i
RunLength(c, text, i) ==
  (CHOOSE j \in i..(Len(text) + 1) :
     /\ ~Accepts(c, text, j)
     /\ \A j2 \in i..(j - 1) : Accepts(c, text, j2)) - i

\* The matcher: k is the sequence of expressions still to match from
\* position i of text, i0 where the match began, g the groups captured so
\* far.  The result is the first complete match in Python's order of
\* preference, or NoMatch.
RECURSIVE MatchK(_, _, _, _, _)
MatchK(k, text, i0, i, g) ==
  IF Len(k) = 0 THEN [ok |-> TRUE, s |-> i0, e |-> i, g |-> g]
  ELSE
    LET h == Head(k)
        rest == Tail(k)
    IN CASE h.t = "lit" ->
              IF /\ i + Len(h.str) - 1 <= Len(text)
                 /\ SubSeq(text, i, i + Len(h.str) - 1) = h.str
              THEN MatchK(rest, text, i0, i + Len(h.str), g) ELSE NoMatch
         [] h.t = "cls" ->
              IF Accepts(h, text, i) THEN MatchK(rest, text, i0, i + 1, g) ELSE NoMatch
         [] h.t = "rep" ->
              LET most == RunLength(h.c, text, i)
                  tries == {[n |-> n, r |-> MatchK(rest, text, i0, i + n, g)] :
                              n \in h.min..most}
                  good == {p \in tries : p.r.ok}
              IN IF good = {} THEN NoMatch
                 ELSE (CHOOSE p \in good :
                         \A q \in good : IF h.greedy THEN q.n <= p.n ELSE p.n <= q.n).r
         [] h.t = "cat" -> MatchK(h.rs \o rest, text, i0, i, g)
         [] h.t = "alt" ->
              IF Len(h.rs) = 0 THEN NoMatch
              ELSE LET first == MatchK(<<Head(h.rs)>> \o rest, text, i0, i, g)
                   IN IF first.ok THEN first
                      ELSE MatchK(<<Alt(Tail(h.rs))>> \o rest, text, i0, i, g)
         [] h.t = "star" ->
              LET more == MatchK(<<h.r, [t |-> "moved", from |-> i], h>> \o rest,
                                 text, i0, i, g)
              IN IF more.ok THEN more ELSE MatchK(rest, text, i0, i, g)
         [] h.t = "moved" ->
              IF i > h.from THEN MatchK(rest, text, i0, i, g) ELSE NoMatch
         [] h.t = "grp" ->
              MatchK(<<[t |-> "open", n |-> h.n], h.r, [t |-> "close", n |-> h.n]>> \o rest,
                     text, i0, i, g)
         [] h.t = "open" ->
              MatchK(rest, text, i0, i, [g EXCEPT ![h.n].ts = i])
         [] h.t = "close" ->
              MatchK(rest, text, i0, i, [g EXCEPT ![h.n].s = g[h.n].ts, ![h.n].e = i])
         [] h.t = "bol" ->
              IF i = 1 \/ At(text, i - 1) = "\n"
              THEN MatchK(rest, text, i0, i, g) ELSE NoMatch
         [] h.t = "eol" ->
              IF i = Len(text) + 1 \/ At(text, i) = "\n"
              THEN MatchK(rest, text, i0, i, g) ELSE NoMatch
         [] h.t = "eot" ->
              IF i = Len(text) + 1 \/ (i = Len(text) /\ At(text, i) = "\n")
              THEN MatchK(rest, text, i0, i, g) ELSE NoMatch
         [] h.t = "nlb" ->
              IF i > 1 /\ At(text, i - 1) = h.c
              THEN NoMatch ELSE MatchK(rest, text, i0, i, g)

\* pattern.match at position i
MatchAt(r, text, i) == MatchK(<<r>>, text, i, i, NoGroups)

\* the least element of a non-empty set of positions
Least(S) == CHOOSE p \in S : \A q \in S : p <= q

\* a quick test that rules out most positions where r cannot match: a
\* pattern that begins with ^ matches at the start of a line only, one that
\* begins with a literal only where its first character stands
CanStart(r, text, p) ==
  LET h == IF r.t = "cat" /\ Len(r.rs) > 0 THEN r.rs[1] ELSE r
  IN CASE h.t = "bol" -> p = 1 \/ At(text, p - 1) = "\n"
       [] h.t = "lit" /\ h.str # "" -> p <= Len(text) /\ At(text, p) = At(h.str, 1)
       [] OTHER -> TRUE

\* the positions at which r matches
Starts(r, text) ==
  {p \in 1..(Len(text) + 1) : CanStart(r, text, p) /\ MatchAt(r, text, p).ok}

\* pattern.search(text): the leftmost match
search(r, text) ==
  LET starts == Starts(r, text)
  IN IF starts = {} THEN NoMatch ELSE MatchAt(r, text, Least(starts))

\* str.lower() by halves
RECURSIVE lower(_)
lower(s) ==
  IF Len(s) = 0 THEN s
  ELSE IF Len(s) = 1 THEN LowerChar(s)
  ELSE LET half == Len(s) \div 2
       IN lower(SubSeq(s, 1, half)) \o lower(SubSeq(s, half + 1, Len(s)))

\* re.search(r, text, re.IGNORECASE) for a pattern r written in lower case:
\* whether there is a match
SearchIgnoreCase(r, text) == search(r, lower(text)).ok

\* match.group(n) and match.group(0); a group that took no part is ""
group(m, text, n) ==
  IF n = 0 THEN SubSeq(text, m.s, m.e - 1)
  ELSE IF m.g[n].s = 0 THEN "" ELSE SubSeq(text, m.g[n].s, m.g[n].e - 1)

\* pattern.finditer(text): the successive matches, left to right, each
\* starting where the one before it ended or later (no pattern of the
\* source matches the empty string)
RECURSIVE FindFrom(_, _, _, _)
FindFrom(r, text, starts, pos) ==
  LET later == {p \in starts : p >= pos}
  IN IF later = {} THEN <<>>
     ELSE LET m == MatchAt(r, text, Least(later))
          IN <<m>> \o FindFrom(r, text, later, m.e)

finditer(r, text) == FindFrom(r, text, Starts(r, text), 1)

\* [match.group(n) for match in pattern.finditer(text)]
Groups(r, text, n) ==
  LET ms == finditer(r, text) IN [i \in 1..Len(ms) |-> group(ms[i], text, n)]

(***************************************************************************)
(* analyze_makefile: the patterns                                          *)
(***************************************************************************)
\* r'^\s*include\s+(.+)$', re.MULTILINE
include_pattern ==
  Cat(<<Bol, Star(In(Space)), Lit("include"), Plus(In(Space)), Group(1, Plus(Dot)), Eol>>)

\* r'^\s*([A-Za-z0-9_]+)\s*[:\+]?=\s*(.+?)(?:\s*#.*)?$', re.MULTILINE
var_pattern ==
  Cat(<<Bol, Star(In(Space)), Group(1, Plus(In(Word))), Star(In(Space)),
        Opt(In({":", "+"})), Lit("="), Star(In(Space)), Group(2, LazyPlus(Dot)),
        Opt(Cat(<<Star(In(Space)), Lit("#"), Star(Dot)>>)), Eol>>)

\* (.+\/)*
DirPrefixes == StarOf(Group(1, Cat(<<Plus(Dot), Lit("/")>>)))

\* the four src_patterns, in the order of the list
src_patterns ==
  << \* r'^\s*\w+\s*=\s*(.+\/)*\*\.[ch]pp'
     Cat(<<Bol, Star(In(Space)), Plus(In(Word)), Star(In(Space)), Lit("="),
           Star(In(Space)), DirPrefixes, Lit("*."), In({"c", "h"}), Lit("pp")>>),
     \* r'^\s*\w+\s*=\s*(.+\/)*\*\.[ch]'
     Cat(<<Bol, Star(In(Space)), Plus(In(Word)), Star(In(Space)), Lit("="),
           Star(In(Space)), DirPrefixes, Lit("*."), In({"c", "h"})>>),
     \* r'^\s*[A-Za-z0-9_]+\s*:\s*(.+\/)*[\w\.]+\.[ch]pp'
     Cat(<<Bol, Star(In(Space)), Plus(In(Word)), Star(In(Space)), Lit(":"),
           Star(In(Space)), DirPrefixes, Plus(In(Word \cup {"."})), Lit("."),
           In({"c", "h"}), Lit("pp")>>),
     \* r'^\s*[A-Za-z0-9_]+\s*:\s*(.+\/)*[\w\.]+\.[ch]'
     Cat(<<Bol, Star(In(Space)), Plus(In(Word)), Star(In(Space)), Lit(":"),
           Star(In(Space)), DirPrefixes, Plus(In(Word \cup {"."})), Lit("."),
           In({"c", "h"})>>) >>

\* r'([^\s:=]+\/)[^\/]*\.[ch]'
dir_pattern ==
  Cat(<<Group(1, Cat(<<Plus(NotIn(Space \cup {":", "="})), Lit("/")>>)),
        Star(NotIn({"/"})), Lit("."), In({"c", "h"})>>)

\* (?:\s|$) without re.MULTILINE
SpaceOrEnd == Alt(<<In(Space), EndOfText>>)

\* r'\.(cpp|cxx|cc|hpp|hxx)(?:\s|$)'
cpp_pattern ==
  Cat(<<Lit("."),
        Group(1, Alt(<<Lit("cpp"), Lit("cxx"), Lit("cc"), Lit("hpp"), Lit("hxx")>>)),
        SpaceOrEnd>>)

\* a faulty variant of c_pattern: the lookbehind is left out
c_pattern_any == Cat(<<Lit(".c"), SpaceOrEnd>>)

\* r'(?<!\.)\.c(?:\s|$)'
c_pattern == Cat(<<NotAfter("."), Lit(".c"), SpaceOrEnd>>)

include_patterns ==
  << \* r'-I\s*([^\s]+)'
     Cat(<<Lit("-I"), Star(In(Space)), Group(1, Plus(NotIn(Space)))>>),
     \* r'INCLUDE\w*\s*[:\+]?=\s*([^\s#]+)'
     Cat(<<Lit("INCLUDE"), Star(In(Word)), Star(In(Space)), Opt(In({":", "+"})),
           Lit("="), Star(In(Space)), Group(1, Plus(NotIn(Space \cup {"#"})))>>) >>

\* the seven thread_indicators, searched with re.IGNORECASE
thread_indicators ==
  << Lit("-lpthread"), Lit("-pthread"), Lit("thread"), Lit("pthread"),
     Lit("std::thread"), Lit("boost::thread"),
     \* r'#include\s*[<"]thread[">]'
     Cat(<<Lit("#include"), Star(In(Space)), In({"<", "\""}), Lit("thread"),
           In({"\"", ">"})>>) >>

(***************************************************************************)
(* analyze_makefile: the analysis of the corpus                            *)
(***************************************************************************)
\* the dict variables: each key's last value, stripped
RECURSIVE AssignAll(_, _, _)
AssignAll(ms, text, d) ==
  IF Len(ms) = 0 THEN d
  ELSE LET key == group(Head(ms), text, 1)
           value == strip(group(Head(ms), text, 2))
       IN AssignAll(Tail(ms), text,
                    [k \in DOMAIN d \cup {key} |-> IF k = key THEN value ELSE d[k]])

ExtractVariables(content) == AssignAll(finditer(var_pattern, content), content, <<>>)

SourceKeys == {"SRCDIR", "SRC_DIR", "SOURCE_DIR", "SOURCES_DIR"}

\* the directories the matches of one of the src_patterns give
DirsOfPattern(pattern, content) ==
  LET lines == Groups(pattern, content, 0)
  IN {group(search(dir_pattern, lines[i]), lines[i], 1) :
        i \in {j \in 1..Len(lines) : search(dir_pattern, lines[j]).ok}}

SourceDirectories(content) ==
  LET variables == ExtractVariables(content)
  IN {variables[key] : key \in SourceKeys \cap DOMAIN variables}
     \cup UNION {DirsOfPattern(src_patterns[n], content) : n \in 1..Len(src_patterns)}

cpp_files(content) == search(cpp_pattern, content).ok

c_files(content) == search(c_pattern, content).ok

\* None is written "None"
DetectLanguage(content) ==
  IF cpp_files(content) /\ c_files(content) THEN "Both"
  ELSE IF cpp_files(content) THEN "C++"
  ELSE IF c_files(content) THEN "C"
  ELSE "None"

IncludeDirectories(content) ==
  UNION {{strip(g) : g \in {Groups(include_patterns[n], content, 1)[i] :
                              i \in 1..Len(Groups(include_patterns[n], content, 1))}} :
         n \in 1..Len(include_patterns)}

HasMultithreading(content) ==
  \E n \in 1..Len(thread_indicators) :
    SearchIgnoreCase(thread_indicators[n], content)

IncludedFiles(content) ==
  LET gs == Groups(include_pattern, content, 1)
  IN {strip(gs[i]) : i \in 1..Len(gs)}

\* the dict analysis that analyze_makefile returns for a corpus
Analyze(content) ==
  [source_directories |-> SourceDirectories(content),
   language |-> DetectLanguage(content),
   include_directories |-> IncludeDirectories(content),
   has_multithreading |-> HasMultithreading(content),
   included_files |-> IncludedFiles(content)]

(***************************************************************************)
(* os.path on POSIX paths                                                  *)
(***************************************************************************)
\* str.rfind('/') + 1: the position after the last slash, 0 if none
AfterLastSlash(p) ==
  LET at == {i \in 1..Len(p) : At(p, i) = "/"}
  IN IF at = {} THEN 0 ELSE CHOOSE i \in at : \A j \in at : j <= i

AllSlashes(s) == \A i \in 1..Len(s) : At(s, i) = "/"

RECURSIVE StripSlashes(_)
StripSlashes(s) ==
  IF Len(s) > 0 /\ At(s, Len(s)) = "/" THEN StripSlashes(SubSeq(s, 1, Len(s) - 1)) ELSE s

\* the head of os.path.split, which is os.path.dirname
dirname(p) ==
  LET head == SubSeq(p, 1, AfterLastSlash(p))
  IN IF head # "" /\ ~AllSlashes(head) THEN StripSlashes(head) ELSE head

\* the tail of os.path.split, which is os.path.basename
basename(p) == SubSeq(p, AfterLastSlash(p) + 1, Len(p))

isabs(p) == startswith(p, "/")

\* os.path.join of two paths
join(a, b) ==
  IF startswith(b, "/") THEN b
  ELSE IF a = "" \/ At(a, Len(a)) = "/" THEN a \o b
  ELSE a \o "/" \o b

\* str.split('/')
RECURSIVE SplitPath(_)
SplitPath(p) ==
  LET at == {i \in 1..Len(p) : At(p, i) = "/"}
  IN IF at = {} THEN <<p>>
     ELSE LET i == CHOOSE i \in at : \A j \in at : i <= j
          IN <<SubSeq(p, 1, i - 1)>> \o SplitPath(SubSeq(p, i + 1, Len(p)))

\* '/'.join(comps)
RECURSIVE JoinPath(_)
JoinPath(comps) ==
  IF Len(comps) = 0 THEN ""
  ELSE IF Len(comps) = 1 THEN comps[1]
  ELSE comps[1] \o "/" \o JoinPath(Tail(comps))

\* the loop of posixpath.normpath over the components
RECURSIVE NormComps(_, _, _)
NormComps(comps, new_comps, initial_slashes) ==
  IF Len(comps) = 0 THEN new_comps
  ELSE LET comp == Head(comps)
           n == Len(new_comps)
       IN IF comp \in {"", "."} THEN NormComps(Tail(comps), new_comps, initial_slashes)
          ELSE IF \/ comp # ".."
                  \/ (initial_slashes = 0 /\ n = 0)
                  \/ (n > 0 /\ new_comps[n] = "..")
          THEN NormComps(Tail(comps), Append(new_comps, comp), initial_slashes)
          ELSE IF n > 0
          THEN NormComps(Tail(comps), SubSeq(new_comps, 1, n - 1), initial_slashes)
          ELSE NormComps(Tail(comps), new_comps, initial_slashes)

\* posixpath.normpath
normpath(p) ==
  IF p = "" THEN "."
  ELSE LET initial_slashes ==
             IF ~startswith(p, "/") THEN 0
             ELSE IF startswith(p, "//") /\ ~startswith(p, "///") THEN 2
             ELSE 1
           body == JoinPath(NormComps(SplitPath(p), <<>>, initial_slashes))
           path == SubSeq("//", 1, initial_slashes) \o body
       IN IF path = "" THEN "." ELSE path

(***************************************************************************)
(* The file system: the directories are fixed, the files are state.  A     *)
(* location is the absolute normalized path of a file or directory.        *)
(***************************************************************************)
VARIABLES
  files,         \* location -> content, for the files that exist
  listing,       \* directory -> its file names, in the order os.scandir gives them
  procs,         \* the invocations (threads of the caller)
  pc,            \* per invocation: "idle", "running", "done", "RecursionError", "IsADirectoryError"
  stack,         \* per invocation: the frames of parse_include_files, the caller's first
  parsed_files,  \* per invocation: the set parsed_files of the running top-level call
  printed,       \* per invocation: the lines printed by the running top-level call
  result,        \* per invocation: what analyze_makefile returned: [content, analysis]
  directives,    \* per invocation: history of the include directives taken
  calls,         \* per invocation: history of the calls of parse_include_files
  ncalls         \* the top-level calls made so far

vars == <<files, listing, procs, pc, stack, parsed_files, printed, result,
          directives, calls, ncalls>>

Dirs == {"/", "/w", "/w/src"}

\* os.getcwd()
cwd == "/w"

Parent(loc) == IF loc = "/" THEN "/" ELSE dirname(loc)

Child(loc, name) == IF loc = "/" THEN "/" \o name ELSE loc \o "/" \o name

\* path resolution as the kernel does it: every component but the last must
\* be a directory, the parent of / is /.  "" when the path names nothing.
RECURSIVE WalkFrom(_, _, _)
WalkFrom(fs, loc, comps) ==
  IF Len(comps) = 0 THEN loc
  ELSE IF loc \notin Dirs THEN ""
  ELSE LET comp == Head(comps)
       IN IF comp \in {"", "."} THEN WalkFrom(fs, loc, Tail(comps))
          ELSE IF comp = ".." THEN WalkFrom(fs, Parent(loc), Tail(comps))
          ELSE IF Child(loc, comp) \in Dirs \cup DOMAIN fs
          THEN WalkFrom(fs, Child(loc, comp), Tail(comps))
          ELSE ""

Walk(fs, p) ==
  IF p = "" THEN "" ELSE WalkFrom(fs, IF isabs(p) THEN "/" ELSE cwd, SplitPath(p))

\* os.path.exists, os.path.isdir
exists(fs, p) == Walk(fs, p) # ""

isdir(fs, p) == Walk(fs, p) \in Dirs

\* a set of strings as a sequence, in some fixed order
RECURSIVE SeqOf(_)
SeqOf(S) == IF S = {} THEN <<>> ELSE LET e == CHOOSE e \in S : TRUE IN <<e>> \o SeqOf(S \ {e})

\* os.scandir of a directory: its files in the order of listing, then its
\* subdirectories; nothing when the path is not a directory
listdir(fs, ls, p, dironly) ==
  LET loc == Walk(fs, IF p = "" THEN "." ELSE p)
      subdirs == SeqOf({basename(d) : d \in {d \in Dirs : d # "/" /\ Parent(d) = loc}})
  IN IF loc \notin Dirs THEN <<>>
     ELSE IF dironly THEN subdirs ELSE ls[loc] \o subdirs

(***************************************************************************)
(* glob.glob and fnmatch                                                   *)
(***************************************************************************)
\* glob.has_magic
has_magic(s) == \E i \in 1..Len(s) : At(s, i) \in {"*", "?", "["}

\* fnmatch.fnmatchcase for patterns of literal characters, * and ?
RECURSIVE fnmatch(_, _)
fnmatch(name, pat) ==
  IF pat = "" THEN name = ""
  ELSE LET c == At(pat, 1)
           rest == SubSeq(pat, 2, Len(pat))
       IN IF c = "*"
          THEN fnmatch(name, rest)
               \/ (name # "" /\ fnmatch(SubSeq(name, 2, Len(name)), pat))
          ELSE /\ name # ""
               /\ (c = "?" \/ c = At(name, 1))
               /\ fnmatch(SubSeq(name, 2, Len(name)), rest)

\* fnmatch.filter, hidden names left out unless the pattern asks for them
RECURSIVE FilterNames(_, _)
FilterNames(names, pattern) ==
  IF Len(names) = 0 THEN <<>>
  ELSE LET name == Head(names)
       IN (IF /\ (startswith(pattern, ".") \/ ~startswith(name, "."))
              /\ fnmatch(name, pattern)
           THEN <<name>> ELSE <<>>) \o FilterNames(Tail(names), pattern)

\* glob._glob1: the names of a directory that match
glob1(fs, ls, dir, pattern, dironly) == FilterNames(listdir(fs, ls, dir, dironly), pattern)

\* glob._glob0: a name without magic
glob0(fs, dir, name) ==
  IF name = "" THEN (IF isdir(fs, dir) THEN <<name>> ELSE <<>>)
  ELSE IF exists(fs, join(dir, name)) THEN <<name>> ELSE <<>>

\* glob._iglob, as a list
RECURSIVE iglob(_, _, _, _)
RECURSIVE GlobInDirs(_, _, _, _, _)
iglob(fs, ls, pathname, dironly) ==
  LET dir == dirname(pathname)
      base == basename(pathname)
  IN IF ~has_magic(pathname)
     THEN (IF base # ""
           THEN (IF exists(fs, pathname) THEN <<pathname>> ELSE <<>>)
           ELSE (IF isdir(fs, dir) THEN <<pathname>> ELSE <<>>))
     ELSE IF dir = "" THEN glob1(fs, ls, "", base, dironly)
     ELSE GlobInDirs(fs, ls,
                     IF dir # pathname /\ has_magic(dir)
                     THEN iglob(fs, ls, dir, TRUE) ELSE <<dir>>,
                     base, dironly)

GlobInDirs(fs, ls, dirs, base, dironly) ==
  IF Len(dirs) = 0 THEN <<>>
  ELSE LET dir == Head(dirs)
           names == IF has_magic(base) THEN glob1(fs, ls, dir, base, dironly)
                    ELSE glob0(fs, dir, base)
       IN [i \in 1..Len(names) |-> join(dir, names[i])]
          \o GlobInDirs(fs, ls, Tail(dirs), base, dironly)

\* glob.glob(pathname)
glob(fs, ls, pathname) == iglob(fs, ls, pathname, FALSE)

(***************************************************************************)
(* parse_include_files: the include target of a directive                  *)
(***************************************************************************)
\* r'\$[\({]([A-Za-z0-9_]+)[\)}]', the var_pattern of parse_include_files
var_ref_pattern ==
  Cat(<<Lit("$"), In({"(", "{"}), Group(1, Plus(In(Word))), In({")", "}"})>>)

\* r'^\s*' + re.escape(var_name) + r'\s*[:\+]?=\s*(.+?)(?:\s*#.*)?$', re.MULTILINE,
\* the var_pattern of expand_var; var_name holds word characters only, which
\* re.escape leaves as they are
assign_pattern(var_name) ==
  Cat(<<Bol, Star(In(Space)), Lit(var_name), Star(In(Space)), Opt(In({":", "+"})),
        Lit("="), Star(In(Space)), Group(1, LazyPlus(Dot)),
        Opt(Cat(<<Star(In(Space)), Lit("#"), Star(Dot)>>)), Eol>>)

\* expand_var(match): content is the variable content of the enclosing call
\* at the time of the substitution
expand_var(m, include_path, content) ==
  LET var_name == group(m, include_path, 1)
      var_match == search(assign_pattern(var_name), content)
  IN IF var_match.ok THEN strip(group(var_match, content, 1))
     ELSE group(m, include_path, 0)

\* var_pattern.sub(expand_var, include_path)
RECURSIVE SubFrom(_, _, _, _)
SubFrom(ms, include_path, content, pos) ==
  IF Len(ms) = 0 THEN SubSeq(include_path, pos, Len(include_path))
  ELSE SubSeq(include_path, pos, Head(ms).s - 1)
       \o expand_var(Head(ms), include_path, content)
       \o SubFrom(Tail(ms), include_path, content, Head(ms).e)

ExpandVars(include_path, content) ==
  SubFrom(finditer(var_ref_pattern, include_path), include_path, content, 1)

\* a faulty variant of ResolveTarget: the directory of the file is forgotten
ResolveFromCwd(base_dir, include_path) ==
  IF ~isabs(include_path) THEN normpath(include_path) ELSE include_path

\* lines 60-62: a relative target is taken from the directory of the file
ResolveTarget(base_dir, include_path) ==
  IF ~isabs(include_path) THEN normpath(join(base_dir, include_path)) ELSE include_path

\* the test of line 65
IsWildcard(include_path) == Contains(include_path, "*")

\* lines 64-70: the paths parse_include_files is called with for a target
TargetsOf(fs, ls, include_path) ==
  IF IsWildcard(include_path) THEN glob(fs, ls, include_path) ELSE <<include_path>>

\* line 27, the message in English
Warning(makefile_path) == "warning: file " \o makefile_path \o " not found"

(***************************************************************************)
(* The files of the model and the bounds                                   *)
(***************************************************************************)
\* the deepest nesting of calls the interpreter allows (sys.getrecursionlimit(),
\* 1000 by default) before it raises RecursionError, cut down for the model
RecursionLimit == 10

\* the top-level calls made in all, by one caller after the other or by two
\* callers at the same time
MaxCalls == 2

Absent == "<absent>"

RootFile == "/w/Makefile"

ExtraFile == "/w/src/extra.mk"

BFile == "/w/src/b.mk"

UpperFile == "/Makefile"

\* what the caller passes for /w/Makefile
RootPaths == {"Makefile", "./Makefile"}

RootMenu ==
  { "include src/extra.mk\ninclude src/b.mk\n",
    "include src/*.mk\n",
    "include src/?.mk\n",
    "include Makefile\n",
    "include ../Makefile\n",
    "D = src\nD = x\ninclude $(D)/b.mk\n",
    "include src/extra.mk\ninclude ${D}/b.mk\n",
    "include src/none.mk\ninclude src/b.mk\n",
    "include /w/src/../src/b.mk\ninclude src/b.mk\n",
    "SRCDIR = src\ninclude $(SRCDIR)/extra.mk\n",
    "SRCDIR = src\nmain.o: src/main.cpp src/util.h\nCFLAGS = -Ivendor/include\n" }

ExtraMenu ==
  { "D = src\n",
    "include none.mk\ninclude b.mk\n",
    "include *.mk\n",
    "include ../Makefile\n" }

BMenu ==
  { "OBJS = b.o\n",
    "include extra.mk\n" }

UpperMenu ==
  { "include ../Makefile\n" }

\* the files that exist, given the content or Absent of each
Present(r, e, b, u) ==
  LET all == [loc \in {RootFile, ExtraFile, BFile, UpperFile} |->
                CASE loc = RootFile -> r [] loc = ExtraFile -> e
                  [] loc = BFile -> b [] loc = UpperFile -> u]
  IN [loc \in {l \in DOMAIN all : all[l] # Absent} |-> all[loc]]

FileNames(fs, dir) == {basename(l) : l \in {l \in DOMAIN fs : Parent(l) = dir}}

Perms(S) ==
  {q \in [1..Cardinality(S) -> S] : \A i, j \in 1..Cardinality(S) : q[i] = q[j] => i = j}

\* the orders in which the directories may list their files
Listings(fs) ==
  {ls \in [Dirs -> UNION {Perms(FileNames(fs, d)) : d \in Dirs}] :
     \A d \in Dirs : ls[d] \in Perms(FileNames(fs, d))}

(***************************************************************************)
(* The calls.  The first frame of a stack is the caller's, which holds the *)
(* path of the top-level call as its one target; every other frame is a    *)
(* call of parse_include_files.                                            *)
(***************************************************************************)
Frame(makefile_path, content, targets) ==
  [makefile_path |-> makefile_path,
   content |-> content,
   base_dir |-> dirname(makefile_path),                    \* line 38
   includes |-> Groups(include_pattern, content, 1),       \* lines 35, 41
   next |-> 0,                                             \* directives taken
   targets |-> targets]                                    \* calls still to make

Top(v) == stack[v][Len(stack[v])]

\* a faulty variant of DefaultParsedFiles: one set for every call, as a
\* default argument set() or a module-level set would be
SharedParsedFiles(shared) == shared

\* lines 16-17: the set of a top-level call; shared is what the calls so
\* far have left behind
DefaultParsedFiles(shared) == {}

Idle(ps) ==
  /\ procs = ps
  /\ pc = [v \in ps |-> "idle"]
  /\ stack = [v \in ps |-> <<>>]
  /\ parsed_files = [v \in ps |-> {}]
  /\ printed = [v \in ps |-> <<>>]
  /\ result = [v \in ps |-> [content |-> "", analysis |-> <<>>]]
  /\ directives = [v \in ps |-> <<>>]
  /\ calls = [v \in ps |-> <<>>]
  /\ ncalls = 0

Init ==
  /\ \E r \in RootMenu \cup {Absent}, e \in ExtraMenu \cup {Absent},
        b \in BMenu \cup {Absent}, u \in UpperMenu \cup {Absent} :
       files = Present(r, e, b, u)
  /\ listing \in Listings(files)
  /\ Idle({1})

\* analyze_makefile(path) is called: line 79 calls parse_include_files(path)
StartCall(v, path) ==
  /\ pc[v] = "idle"
  /\ ncalls < MaxCalls
  /\ ncalls' = ncalls + 1
  /\ pc' = [pc EXCEPT ![v] = "running"]
  /\ stack' = [stack EXCEPT ![v] = <<[Frame("", "", <<path>>) EXCEPT !.includes = <<>>]>>]
  /\ parsed_files' = [parsed_files EXCEPT
                        ![v] = DefaultParsedFiles(UNION {parsed_files[u] : u \in procs})]
  /\ printed' = [printed EXCEPT ![v] = <<>>]
  /\ directives' = [directives EXCEPT ![v] = <<>>]
  /\ calls' = [calls EXCEPT ![v] = <<>>]
  /\ UNCHANGED <<files, listing, procs, result>>

\* the call the top frame is about to make
Calling(v) ==
  /\ pc[v] = "running"
  /\ Len(Top(v).targets) > 0

Callee(v) == Head(Top(v).targets)

Called(v, outcome) ==
  Append(calls[v], [caller |-> Top(v).makefile_path, depth |-> Len(stack[v]),
                    path |-> Callee(v), outcome |-> outcome])

\* a faulty variant of Resume: the returned text is put before the content
ResumePrepend(frame, text) ==
  [frame EXCEPT !.content = text \o frame.content, !.targets = Tail(frame.targets)]

\* the caller goes on with what parse_include_files returned
Resume(frame, text) ==
  [frame EXCEPT !.content = frame.content \o text, !.targets = Tail(frame.targets)]

\* lines 20-21: the file is in parsed_files, the call returns ""
CallVisited(v) ==
  /\ Calling(v)
  /\ Len(stack[v]) < RecursionLimit
  /\ Callee(v) \in parsed_files[v]
  /\ stack' = [stack EXCEPT ![v][Len(stack[v])] = Resume(Top(v), "")]
  /\ calls' = [calls EXCEPT ![v] = Called(v, "visited")]
  /\ UNCHANGED <<files, listing, procs, pc, parsed_files, printed, result,
                 directives, ncalls>>

\* a faulty variant of IsMissing: the test of line 26 is left out
NeverMissing(fs, makefile_path) == FALSE

\* the test of line 26
IsMissing(fs, makefile_path) == ~exists(fs, makefile_path)

\* line 31: what open(makefile_path, 'r') raises, "" when it opens the file
open(fs, makefile_path) ==
  IF Walk(fs, makefile_path) = "" THEN "FileNotFoundError"
  ELSE IF Walk(fs, makefile_path) \in Dirs THEN "IsADirectoryError"
  ELSE ""

\* lines 24-28: the file does not exist, the call prints and returns ""
CallMissing(v) ==
  /\ Calling(v)
  /\ Len(stack[v]) < RecursionLimit
  /\ Callee(v) \notin parsed_files[v]
  /\ IsMissing(files, Callee(v))
  /\ parsed_files' = [parsed_files EXCEPT ![v] = @ \cup {Callee(v)}]
  /\ printed' = [printed EXCEPT ![v] = Append(@, Warning(Callee(v)))]
  /\ stack' = [stack EXCEPT ![v][Len(stack[v])] = Resume(Top(v), "")]
  /\ calls' = [calls EXCEPT ![v] = Called(v, "missing")]
  /\ UNCHANGED <<files, listing, procs, pc, result, directives, ncalls>>

\* lines 24-38: the file is read, or open() raises
CallRead(v) ==
  /\ Calling(v)
  /\ Len(stack[v]) < RecursionLimit
  /\ Callee(v) \notin parsed_files[v]
  /\ ~IsMissing(files, Callee(v))
  /\ parsed_files' = [parsed_files EXCEPT ![v] = @ \cup {Callee(v)}]
  /\ calls' = [calls EXCEPT ![v] = Called(v, "read")]
  /\ IF open(files, Callee(v)) # ""
     THEN /\ pc' = [pc EXCEPT ![v] = open(files, Callee(v))]
          /\ stack' = [stack EXCEPT ![v] = <<>>]
     ELSE /\ pc' = pc
          /\ stack' = [stack EXCEPT ![v] =
                         Append(@, Frame(Callee(v), files[Walk(files, Callee(v))], <<>>))]
  /\ UNCHANGED <<files, listing, procs, printed, result, directives, ncalls>>

\* the call would nest deeper than the interpreter allows
CallOverflow(v) ==
  /\ Calling(v)
  /\ Len(stack[v]) >= RecursionLimit
  /\ pc' = [pc EXCEPT ![v] = "RecursionError"]
  /\ stack' = [stack EXCEPT ![v] = <<>>]
  /\ UNCHANGED <<files, listing, procs, parsed_files, printed, result,
                 directives, calls, ncalls>>

\* lines 41-66: the next directive of the file is taken
NextDirective(v) ==
  /\ pc[v] = "running"
  /\ Len(Top(v).targets) = 0
  /\ Top(v).next < Len(Top(v).includes)
  /\ LET f == Top(v)
         raw == strip(f.includes[f.next + 1])                       \* line 42
         expanded == ExpandVars(raw, f.content)                     \* line 58
         include_path == ResolveTarget(f.base_dir, expanded)        \* lines 61-62
         targets == TargetsOf(files, listing, include_path)         \* lines 65-70
     IN /\ stack' = [stack EXCEPT ![v][Len(stack[v])] =
                       [f EXCEPT !.next = f.next + 1, !.targets = targets]]
        /\ directives' = [directives EXCEPT ![v] =
                            Append(@, [file |-> f.makefile_path, nr |-> f.next + 1,
                                       raw |-> raw, expanded |-> expanded,
                                       include_path |-> include_path,
                                       targets |-> targets])]
  /\ UNCHANGED <<files, listing, procs, pc, parsed_files, printed, result,
                 calls, ncalls>>

\* line 72, then lines 68 and 70 of the caller: content += the returned text
Return(v) ==
  /\ pc[v] = "running"
  /\ Len(stack[v]) > 1
  /\ Len(Top(v).targets) = 0
  /\ Top(v).next = Len(Top(v).includes)
  /\ LET n == Len(stack[v])
         caller == stack[v][n - 1]
     IN stack' = [stack EXCEPT ![v] =
                    Append(SubSeq(@, 1, n - 2), Resume(caller, Top(v).content))]
  /\ UNCHANGED <<files, listing, procs, pc, parsed_files, printed, result,
                 directives, calls, ncalls>>

\* lines 79-163: parse_include_files has returned, the corpus is analyzed
Finish(v) ==
  /\ pc[v] = "running"
  /\ Len(stack[v]) = 1
  /\ Len(Top(v).targets) = 0
  /\ LET content == Top(v).content
         analysis == Analyze(content)
     IN result' = [result EXCEPT ![v] = [content |-> content, analysis |-> analysis]]
  /\ pc' = [pc EXCEPT ![v] = "done"]
  /\ stack' = [stack EXCEPT ![v] = <<>>]
  /\ UNCHANGED <<files, listing, procs, parsed_files, printed, directives, calls, ncalls>>

Next ==
  \/ \E v \in procs, path \in RootPaths : StartCall(v, path)
  \/ \E v \in procs : CallVisited(v)
  \/ \E v \in procs : CallMissing(v)
  \/ \E v \in procs : CallRead(v)
  \/ \E v \in procs : CallOverflow(v)
  \/ \E v \in procs : NextDirective(v)
  \/ \E v \in procs : Return(v)
  \/ \E v \in procs : Finish(v)

Spec == Init /\ [][Next]_vars

(***************************************************************************)
(* parse_include_files as the function it is: what one call gives back     *)
(* when nothing else runs, [text, parsed_files, printed, raised].          *)
(***************************************************************************)
RECURSIVE parse_include_files(_, _, _)
RECURSIVE IncludeLoop(_, _, _, _, _)
RECURSIVE GlobLoop(_, _, _)

\* lines 66-70: the calls for the targets of one directive; acc is the
\* content, the set and the output of the call so far
GlobLoop(targets, acc, depth) ==
  IF Len(targets) = 0 \/ acc.raised # "" THEN acc
  ELSE LET r == parse_include_files(Head(targets), acc.parsed_files, depth)
       IN GlobLoop(Tail(targets),
                   [text |-> acc.text \o r.text,
                    parsed_files |-> r.parsed_files,
                    printed |-> acc.printed \o r.printed,
                    raised |-> r.raised],
                   depth)

\* lines 41-70: the loop over the directives of the file
IncludeLoop(makefile_path, includes, nr, acc, depth) ==
  IF nr > Len(includes) \/ acc.raised # "" THEN acc
  ELSE LET include_path == ResolveTarget(dirname(makefile_path),
                                         ExpandVars(strip(includes[nr]), acc.text))
       IN IncludeLoop(makefile_path, includes, nr + 1,
                      GlobLoop(TargetsOf(files, listing, include_path), acc, depth),
                      depth)

\* lines 5-72; depth is the nesting of the call
parse_include_files(makefile_path, parsed_files_, depth) ==
  LET gives(text, added, out, raised) ==
        [text |-> text, parsed_files |-> parsed_files_ \cup added,
         printed |-> out, raised |-> raised]
  IN IF depth >= RecursionLimit THEN gives("", {}, <<>>, "RecursionError")
     ELSE IF makefile_path \in parsed_files_ THEN gives("", {}, <<>>, "")
     ELSE IF IsMissing(files, makefile_path)
     THEN gives("", {makefile_path}, <<Warning(makefile_path)>>, "")
     ELSE IF open(files, makefile_path) # ""
     THEN gives("", {makefile_path}, <<>>, open(files, makefile_path))
     ELSE LET content == files[Walk(files, makefile_path)]
          IN IncludeLoop(makefile_path, Groups(include_pattern, content, 1), 1,
                         gives(content, {makefile_path}, <<>>, ""), depth + 1)

(***************************************************************************)
(* Several top-level calls: two callers at the same time, or one caller    *)
(* that calls again when it has its report.                                *)
(***************************************************************************)
\* the caller has the report and is free to call analyze_makefile again
Again(v) ==
  /\ pc[v] = "done"
  /\ ncalls < MaxCalls
  /\ pc' = [pc EXCEPT ![v] = "idle"]
  /\ UNCHANGED <<files, listing, procs, stack, parsed_files, printed, result,
                 directives, calls, ncalls>>

InitCalls ==
  /\ \E r \in {"include src/*.mk\n", "include ../Makefile\n"},
        u \in {"include ../Makefile\n", Absent} :
       files = Present(r, "include ../Makefile\n", "include extra.mk\n", u)
  /\ listing \in Listings(files)
  /\ Idle({1, 2})

NextCalls ==
  \/ Next
  \/ \E v \in procs : Again(v)

SpecCalls == InitCalls /\ [][NextCalls]_vars

(***************************************************************************)
(* analyze_makefile on a file without directives: the corpus is the file.  *)
(***************************************************************************)
Tokens == {"a.c", "b.cpp", "c.cc", "d.hxx", "e..c", "f.cp", "g.c.o"}

Separators == {" ", "\n", ""}

\* one token, or two with a separator between them
Corpora == Tokens \cup {t \o sep \o u : t \in Tokens, sep \in Separators, u \in Tokens}

InitAnalyze ==
  /\ \E content \in Corpora : files = Present(content, Absent, Absent, Absent)
  /\ listing \in Listings(files)
  /\ Idle({1})

NextAnalyze ==
  \/ \E v \in procs, path \in RootPaths : StartCall(v, path)
  \/ \E v \in procs : CallRead(v)
  \/ \E v \in procs : Return(v)
  \/ \E v \in procs : Finish(v)
  \/ \E v \in procs : Again(v)

SpecAnalyze == InitAnalyze /\ [][NextAnalyze]_vars

(***************************************************************************)
(* What the logs of a call say                                             *)
(***************************************************************************)
Last(s) == s[Len(s)]

Range(s) == {s[i] : i \in 1..Len(s)}

\* the file a path names, and its content on disk
Loc(p) == Walk(files, p)

OnDisk(p) == files[Loc(p)]

\* the calls of invocation v that read a file
Reads(v) == {i \in 1..Len(calls[v]) : calls[v][i].outcome = "read"}

(***************************************************************************)
(* C1                                                                      *)
(***************************************************************************)
\* C1: whatever the include graph, a top-level call terminates and returns a
\* text: a call that has ended has ended by returning, never by an exception
C1_Terminates ==
  \A v \in procs : pc[v] \notin {"idle", "running"} => pc[v] = "done"

(***************************************************************************)
(* C2                                                                      *)
(***************************************************************************)
\* C2: in the corpus of one top-level call each file's content appears at
\* most once, under whatever spellings of its path the file is reached: no
\* two calls that read a file read the same file
C2_EachFileOnce ==
  \A v \in procs : pc[v] = "done" =>
    \A i, j \in Reads(v) : i < j => Loc(calls[v][i].path) # Loc(calls[v][j].path)

(***************************************************************************)
(* C3                                                                      *)
(***************************************************************************)
\* invocation v makes a call in this step, of a path that is not in
\* parsed_files and names nothing on disk
CallsMissing(v) ==
  /\ Len(calls'[v]) = Len(calls[v]) + 1
  /\ Callee(v) \notin parsed_files[v]
  /\ Loc(Callee(v)) = ""

\* the call prints the warning, gives the caller nothing, raises nothing and
\* leaves the caller with every other call and directive it had to take
MissingRecovered(v) ==
  /\ pc'[v] = "running"
  /\ printed'[v] = Append(printed[v], Warning(Callee(v)))
  /\ Len(stack'[v]) = Len(stack[v])
  /\ \A n \in 1..Len(stack[v]) - 1 : stack'[v][n] = stack[v][n]
  /\ Last(stack'[v]) = [Top(v) EXCEPT !.targets = Tail(Top(v).targets)]

\* a call that has returned has taken every directive of every file it read
\* and made every call the directives asked for, the corpus holds the content
\* of every file read, and one warning is printed for each call of a path
\* that names nothing
AllResolved(v) ==
  pc[v] = "done" =>
    /\ \A i \in Reads(v) :
         LET p == calls[v][i].path
         IN /\ Contains(result[v].content, OnDisk(p))
            /\ \A nr \in 1..Len(Groups(include_pattern, OnDisk(p), 1)) :
                 \E d \in Range(directives[v]) :
                   /\ d.file = p /\ d.nr = nr
                   /\ \A t \in Range(d.targets) :
                        \E c \in Range(calls[v]) : c.caller = p /\ c.path = t
    /\ LET missing == {i \in 1..Len(calls[v]) :
                         calls[v][i].outcome # "visited" /\ Loc(calls[v][i].path) = ""}
       IN /\ Len(printed[v]) = Cardinality(missing)
          /\ \A i \in missing : Warning(calls[v][i].path) \in Range(printed[v])

\* C3: a call of a path that does not exist prints a warning that names the
\* path, contributes no text and raises nothing; every later directive of the
\* file and of the files above it is still resolved and the content of what
\* they include is in the corpus
C3_MissingRecovered ==
  /\ [][\A v \in procs : CallsMissing(v) => MissingRecovered(v)]_vars
  /\ [](\A v \in procs : AllResolved(v))

\* a file is read after a call found nothing, by a later directive of the
\* same file, and a file above goes on with a later call
C3_Witness ==
  \E v \in procs :
    /\ pc[v] = "done"
    /\ \E i, j, k \in 1..Len(calls[v]) :
         /\ i < j /\ i < k
         /\ calls[v][i].outcome = "missing"
         /\ calls[v][j].outcome = "read" /\ calls[v][j].caller = calls[v][i].caller
         /\ calls[v][k].depth < calls[v][i].depth

(***************************************************************************)
(* C4                                                                      *)
(***************************************************************************)
\* the value the last assignment of content gives to the variable of token m,
\* the token itself when content assigns nothing to it
LastValue(m, include_path, content) ==
  LET var_name == group(m, include_path, 1)
      ms == finditer(assign_pattern(var_name), content)
  IN IF Len(ms) > 0 THEN strip(group(Last(ms), content, 1))
     ELSE group(m, include_path, 0)

RECURSIVE SubLast(_, _, _, _)
SubLast(ms, include_path, content, pos) ==
  IF Len(ms) = 0 THEN SubSeq(include_path, pos, Len(include_path))
  ELSE SubSeq(include_path, pos, Head(ms).s - 1)
       \o LastValue(Head(ms), include_path, content)
       \o SubLast(Tail(ms), include_path, content, Head(ms).e)

\* the target with every token replaced by the last value of its variable
ExpandLast(include_path, content) ==
  SubLast(finditer(var_ref_pattern, include_path), include_path, content, 1)

\* C4: every $(NAME) and ${NAME} of the target of a directive is replaced by
\* the last value the file of the directive, as it is on disk, assigns to
\* NAME, and is left as it is when that file assigns nothing to NAME
C4_LastValueInOwnFile ==
  \A v \in procs : Len(directives[v]) > 0 =>
    LET d == Last(directives[v])
    IN Contains(d.raw, "$") => d.expanded = ExpandLast(d.raw, OnDisk(d.file))

(***************************************************************************)
(* C5                                                                      *)
(***************************************************************************)
\* The depth-first text of a path, from the targets the directives were
\* resolved to: [text, seen], seen the paths called so far.
HasDirective(v, p, nr) == \E d \in Range(directives[v]) : d.file = p /\ d.nr = nr

DirectiveOf(v, p, nr) == CHOOSE d \in Range(directives[v]) : d.file = p /\ d.nr = nr

RECURSIVE TextOf(_, _, _, _)
RECURSIVE TextOfTargets(_, _, _, _)
RECURSIVE TextOfDirectives(_, _, _, _, _)
TextOf(v, p, seen, fuel) ==
  IF fuel = 0 \/ p \in seen \/ Loc(p) = "" THEN [text |-> "", seen |-> seen \cup {p}]
  ELSE LET rest == TextOfDirectives(v, p, 1, seen \cup {p}, fuel - 1)
       IN [text |-> OnDisk(p) \o rest.text, seen |-> rest.seen]

TextOfTargets(v, targets, seen, fuel) ==
  IF Len(targets) = 0 THEN [text |-> "", seen |-> seen]
  ELSE LET first == TextOf(v, Head(targets), seen, fuel)
           rest == TextOfTargets(v, Tail(targets), first.seen, fuel)
       IN [text |-> first.text \o rest.text, seen |-> rest.seen]

TextOfDirectives(v, p, nr, seen, fuel) ==
  IF ~HasDirective(v, p, nr) THEN [text |-> "", seen |-> seen]
  ELSE LET first == TextOfTargets(v, DirectiveOf(v, p, nr).targets, seen, fuel)
           rest == TextOfDirectives(v, p, nr + 1, first.seen, fuel)
       IN [text |-> first.text \o rest.text, seen |-> rest.seen]

\* C5: the text returned for a file is the content of the file followed by
\* the text of each of its directives, in the order of the directives, each
\* the depth-first text of its targets, a path called before giving nothing
C5_DepthFirstOrder ==
  \A v \in procs : pc[v] = "done" =>
    result[v].content = TextOf(v, calls[v][1].path, {}, RecursionLimit).text

\* a file read two levels down, a file read one level down after it, and a
\* call of a path called before
C5_Witness ==
  \E v \in procs :
    /\ pc[v] = "done"
    /\ \E i, j, k \in 1..Len(calls[v]) :
         /\ i < j
         /\ calls[v][i].outcome = "read" /\ calls[v][i].depth = 3
         /\ calls[v][j].outcome = "read" /\ calls[v][j].depth = 2
         /\ calls[v][k].outcome = "visited"

(***************************************************************************)
(* C6                                                                      *)
(***************************************************************************)
\* C6: a directive whose resolved target holds a wildcard character is
\* expanded to the paths that match it on disk, each of them is called, and
\* the corpus holds the content of each, in whatever order the directory
\* lists its files
C6_WildcardExpanded ==
  \A v \in procs : pc[v] = "done" =>
    \A d \in Range(directives[v]) : has_magic(d.include_path) =>
      /\ Range(d.targets) = Range(glob(files, listing, d.include_path))
      /\ \A p \in Range(d.targets) :
           /\ \E c \in Range(calls[v]) : c.path = p /\ c.caller = d.file
           /\ Contains(result[v].content, OnDisk(p))

(***************************************************************************)
(* C7                                                                      *)
(***************************************************************************)
\* where the components lead from a location, taken as they are written
RECURSIVE LexFrom(_, _)
LexFrom(loc, comps) ==
  IF Len(comps) = 0 THEN loc
  ELSE LET comp == Head(comps)
       IN LexFrom(IF comp \in {"", "."} THEN loc
                  ELSE IF comp = ".." THEN Parent(loc)
                  ELSE Child(loc, comp),
                  Tail(comps))

\* where the process looks for a path
Attempted(p) == LexFrom(IF isabs(p) THEN "/" ELSE cwd, SplitPath(p))

\* no . segment, no empty segment, and .. segments only at the front of a
\* relative path
Normalized(p) ==
  LET comps == SplitPath(IF isabs(p) THEN SubSeq(p, 2, Len(p)) ELSE p)
  IN \/ p \in {".", "/"}
     \/ \A i \in 1..Len(comps) :
          /\ comps[i] \notin {"", "."}
          /\ comps[i] = ".." => (~isabs(p) /\ \A j \in 1..(i - 1) : comps[j] = "..")

\* C7: a target that is not absolute after the substitution is looked for
\* from the directory that holds the file of the directive, at every depth,
\* under a path without . and .. segments inside
C7_RelativeToIncludingFile ==
  \A v \in procs : \A d \in Range(directives[v]) :
    ~isabs(d.expanded) =>
      /\ Attempted(d.include_path) = LexFrom(Parent(Loc(d.file)), SplitPath(d.expanded))
      /\ Normalized(d.include_path)
      /\ ~IsWildcard(d.include_path) => d.targets = <<d.include_path>>

\* the file with SRCDIR = src and include $(SRCDIR)/extra.mk has src/extra.mk
\* read, and a directive of a file in /w/src, two levels down, is resolved
C7_Witness ==
  \E v \in procs :
    /\ \E d \in Range(directives[v]) :
         /\ d.raw = "$(SRCDIR)/extra.mk" /\ d.include_path = "src/extra.mk"
         /\ \E c \in Range(calls[v]) :
              c.caller = d.file /\ c.path = "src/extra.mk" /\ c.outcome = "read"
    /\ \E d \in Range(directives[v]) :
         /\ Parent(Loc(d.file)) = "/w/src" /\ ~isabs(d.expanded)
         /\ \E c \in Range(calls[v]) :
              c.caller = d.file /\ c.path = d.include_path /\ c.depth >= 3

(***************************************************************************)
(* C8                                                                      *)
(***************************************************************************)
\* C8: for the root file with SRCDIR = src, the rule main.o: src/main.cpp
\* src/util.h and the flag -Ivendor/include the report has src/ among the
\* source directories, the language C++, vendor/include among the include
\* directories and no multithreading
C8_ScenarioReport ==
  \A v \in procs :
    (/\ pc[v] = "done"
     /\ RootFile \in DOMAIN files
     /\ files[RootFile] =
          "SRCDIR = src\nmain.o: src/main.cpp src/util.h\nCFLAGS = -Ivendor/include\n")
    => LET a == result[v].analysis
       IN /\ "src/" \in a.source_directories
          /\ a.language = "C++"
          /\ "vendor/include" \in a.include_directories
          /\ a.has_multithreading = FALSE

(***************************************************************************)
(* C9                                                                      *)
(***************************************************************************)
\* position e is past the end of the text or holds white space
TokenEnds(text, e) == e > Len(text) \/ At(text, e) \in Space

\* the text has .cpp, .cxx, .cc, .hpp or .hxx followed by white space or by
\* the end of the text
HasCppToken(text) ==
  \E i \in 1..Len(text), x \in {"cpp", "cxx", "cc", "hpp", "hxx"} :
    /\ i + Len(x) <= Len(text)
    /\ SubSeq(text, i, i + Len(x)) = "." \o x
    /\ TokenEnds(text, i + Len(x) + 1)

\* the text has .c, not after another dot, followed by white space or by the
\* end of the text
HasBareCToken(text) ==
  \E i \in 1..(Len(text) - 1) :
    /\ SubSeq(text, i, i + 1) = ".c"
    /\ TokenEnds(text, i + 2)
    /\ i > 1 => At(text, i - 1) # "."

Classified(text) ==
  CASE HasCppToken(text) /\ HasBareCToken(text) -> "Both"
    [] HasCppToken(text) /\ ~HasBareCToken(text) -> "C++"
    [] ~HasCppToken(text) /\ HasBareCToken(text) -> "C"
    [] OTHER -> "None"

\* the second analysis of a corpus gives the language the first one gave
SameLanguageAgain(v) ==
  (/\ pc[v] = "running" /\ pc'[v] = "done"
   /\ result[v].analysis # <<>>
   /\ result'[v].content = result[v].content)
  => result'[v].analysis.language = result[v].analysis.language

\* C9: the language of the report is Both when the corpus has a C++ token
\* and a bare .c token, C++ with a C++ token only, C with a bare .c token
\* only, absent with neither; the analysis of the same corpus again gives
\* the same language
C9_LanguageClassified ==
  /\ [](\A v \in procs : pc[v] = "done" =>
          result[v].analysis.language = Classified(result[v].content))
  /\ [][\A v \in procs : SameLanguageAgain(v)]_vars

\* the second analysis of a corpus with .c after a dot and a C++ token
C9_Witness ==
  \E v \in procs :
    /\ pc[v] = "done" /\ ncalls = 2
    /\ Contains(result[v].content, "..c")
    /\ result[v].analysis.language = "C++"

(***************************************************************************)
(* C10                                                                     *)
(***************************************************************************)
\* a call that ends, ends as the call alone on the same files ends: with the
\* same exception, or the same corpus, the same report and the same warnings
EndsAsAlone(v) ==
  (pc[v] = "running" /\ pc'[v] # "running") =>
    LET alone == parse_include_files(calls[v][1].path, {}, 1)
    IN IF pc'[v] # "done" THEN alone.raised = pc'[v]
       ELSE /\ alone.raised = ""
            /\ result'[v].content = alone.text
            /\ result'[v].analysis = Analyze(alone.text)
            /\ printed[v] = alone.printed

\* a call finds a path already parsed only when it has called that path itself
OwnVisitsOnly(v) ==
  \A i \in 1..Len(calls[v]) :
    calls[v][i].outcome = "visited" =>
      \E j \in 1..(i - 1) : calls[v][j].path = calls[v][i].path

\* C10: the set of parsed files is new for every top-level call: in any
\* sequence or interleaving of calls each call returns the corpus and the
\* report it returns when it runs alone, and a file parsed by one call is
\* never taken as parsed by another
C10_CallsIndependent ==
  /\ [][\A v \in procs : EndsAsAlone(v)]_vars
  /\ [](\A v \in procs : OwnVisitsOnly(v))

\* two calls under way at the same time have both read the same file
C10_Witness ==
  /\ pc[1] = "running" /\ pc[2] = "running"
  /\ \E i \in Reads(1), j \in Reads(2) :
       /\ calls[1][i].path = calls[2][j].path
       /\ calls[1][i].depth >= 2
=============================================================================
